---- MODULE Spec2Model ----
(***************************************************************************)
(* gbfs-monitor: the scheduled Collector, the Retention Sweeper (cleanup   *)
(* lambda) and the WebSocket query handler, over a shared keyed table      *)
(* bike-stats with primary key (provider_id, timestamp) and the secondary  *)
(* index DateIndex (date, timestamp).                                      *)
(*                                                                         *)
(* Times keep the units of the source: Date.now() is in milliseconds, the  *)
(* stored timestamp is in seconds.  TLC integers are 32 bits wide, so the  *)
(* clock of the model runs over the first days after the epoch             *)
(* (1970-01-01T23:30Z onwards) instead of today's dates.                   *)
(***************************************************************************)
EXTENDS Integers, Sequences, FiniteSets, TLC

\* ------------------------------------------------------------------ bounds
MaxTicks == 2        \* clock steps in one behaviour
MaxDays == 15        \* the clock stays below this many days after the epoch
MaxRecords == 4      \* the Collector is not invoked once the table could outgrow this
PageLimit == 26      \* items in one Query response (the store's 1 MB page)
SmallRequest == 2    \* BatchWrite requests up to this size are processed in every possible way
MaxFailAt == 2       \* the store may reject any of the first MaxFailAt queries of a request
MaxStations == 2     \* entries in a station-information or station-status list
MaxRuns == 2         \* runs of the mirroring Collector that may overlap

\* ------------------------------------------------------- time arithmetic
MinuteMs == 60 * 1000
HourMs == 60 * 60 * 1000
DayMs == 24 * 60 * 60 * 1000

\* new Date(<unparseable>).getTime(): every genuine time of the model is >= 0
NaN == -1

\* days since the epoch -> <<year, month, day>> (proleptic Gregorian, UTC)
CivilFromDays(z) ==
    LET zz == z + 719468
        era == zz \div 146097
        doe == zz - era * 146097
        yoe == (doe - doe \div 1460 + doe \div 36524 - doe \div 146096) \div 365
        doy == doe - (365 * yoe + yoe \div 4 - yoe \div 100)
        mp == (5 * doy + 2) \div 153
        d == doy - (153 * mp + 2) \div 5 + 1
        m == IF mp < 10 THEN mp + 3 ELSE mp - 9
        y == yoe + era * 400 + (IF m <= 2 THEN 1 ELSE 0)
    IN  <<y, m, d>>

\* <<year, month, day>> -> days since the epoch
DaysFromCivil(y, m, d) ==
    LET yy == IF m <= 2 THEN y - 1 ELSE y
        era == yy \div 400
        yoe == yy - era * 400
        mp == IF m > 2 THEN m - 3 ELSE m + 9
        doy == (153 * mp + 2) \div 5 + d - 1
        doe == yoe * 365 + yoe \div 4 - yoe \div 100 + doy
    IN  era * 146097 + doe - 719468

\* new Date(ms).toISOString().split('T')[0]: the UTC date, as <<y, m, d>>
getDateString(ms) == CivilFromDays(ms \div DayMs)

\* ------------------------------------------------------------ configuration
\* process.env.PROVIDERS, by provider name, in list order
PROVIDERS == <<"A", "B">>

ProviderNames == {PROVIDERS[i] : i \in 1..Len(PROVIDERS)}

\* the collector lambda has no RETENTION_DAYS in its environment
CollectorRetentionDays == 30

TickSteps == {HourMs, 3 * DayMs, 7 * DayMs}

InitialNow == DayMs - 30 * MinuteMs

VARIABLES
    now,          \* Date.now(), milliseconds
    ticks,        \* clock steps taken
    table,        \* bike-stats table: a set of items, one per (provider_id, timestamp)
    colPc,        \* Collector invocation: "idle", "running", "returned"
    colTask,      \* per provider: the callback handed to Promise.allSettled
    colSummary,   \* summary of the response body of the last Collector invocation
    colStatusCode,\* statusCode of the response of the last Collector invocation
    bucket,       \* S3 bucket of the blob-mirroring Collector: a set of objects,
                  \* one per Key
    env,          \* process.env of the invoked lambda: which variables are set
    runs,         \* runs of the mirroring Collector for one provider that may
                  \* overlap: what each has collected and how far storeData got
    sw,           \* Retention Sweeper invocation: the locals of handler,
                  \* cleanupProviderData and deleteItemsBatch
    swStarted,    \* providers cleanupProviderData was called for in the invocation
    swCompleted,  \* providers whose cleanupProviderData returned without error
    swDeleted,    \* keys the store deleted on behalf of the invocation
    swSent,       \* deleteItemsBatch: the BatchWrite requests sent for the current batch
    swResp,       \* deleteItemsBatch: the UnprocessedItems of each response
    swSleeps,     \* deleteItemsBatch: the waits between the attempts, in ms
    swThrown,     \* messages of the CleanupErrors thrown, innermost first
    swHist,       \* the Sweeper invocation before this one: how it ended, its
                  \* cutoff, what it deleted; and the table this one started on
    connections,  \* websocket-connections table: a set of items, one per connection_id
    registryLog,  \* per connection id: the last $connect / $disconnect the store
                  \* accepted, and whether it repeated the one before
    ws            \* the last WebSocket event handled: the event, the locals of
                  \* getBikeStats, the DateIndex queries issued, the
                  \* PostToConnection calls made, the handler's result, the
                  \* store call the store rejected (failAt; 0: none)

colVars == <<colPc, colTask, colSummary, colStatusCode, bucket, env, runs>>
swVars == <<sw, swStarted, swCompleted, swDeleted, swSent, swResp, swSleeps, swThrown, swHist>>
wsVars == <<connections, registryLog, ws>>

\* ------------------------------------------------------------------ store
Key(item) == <<item.provider_id, item.timestamp>>

\* PutItem on a table whose primary key is the timestamp alone
PutItem_KeyedByTimestamp(t, item) == {r \in t : r.timestamp # item.timestamp} \cup {item}

\* PutCommand: an item with the same primary key is replaced
PutItem(t, item) == {r \in t : Key(r) # Key(item)} \cup {item}

\* ----------------------------------------------------------- Feed Normalizer
\* a member X.feeds of the discovery document: undefined, or an array of
\* {name, url} entries (possibly the empty array)
FeedList(present, feeds) == [present |-> present, feeds |-> feeds]

NoFeedList == FeedList(FALSE, <<>>)

\* a sub-feed entry; the url tells the location of the list it stands in
Feed(location, name) == [name |-> name, url |-> <<location, name>>]

\* f.url of no entry
NoUrl == <<>>

\* what axios.get resolves with for provider.url: a network error, a body
\* without a data member, or a body whose data has en?.feeds, feeds, de?.feeds
GbfsResponse(kind, en, feeds, de) == [kind |-> kind, en |-> en, feeds |-> feeds, de |-> de]

NetworkError == GbfsResponse("networkError", NoFeedList, NoFeedList, NoFeedList)

NoData == GbfsResponse("noData", NoFeedList, NoFeedList, NoFeedList)

\* what axios.get resolves with for a sub-feed url: data.stations, or an error
StationsResponse(ok, stations) == [ok |-> ok, stations |-> stations]

\* everything the network would answer to the requests of one provider
Fetched(gbfs, stationInfo, stationStatus) ==
    [gbfs |-> gbfs, stationInfo |-> stationInfo, stationStatus |-> stationStatus]

\* collectProviderData: feeds = data.en?.feeds; if (!feeds) data.feeds;
\* if (!feeds) data.de?.feeds.  !feeds holds for undefined, not for []
ProbeFeeds(gbfs) ==
    IF gbfs.en.present THEN gbfs.en
    ELSE IF gbfs.feeds.present THEN gbfs.feeds
    ELSE gbfs.de

\* FeedUrl that takes the first entry of the list, whatever its name
FeedUrl_AnyEntry(feeds, name) ==
    IF Len(feeds) = 0 THEN NoUrl ELSE feeds[1].url

\* feeds.find(f => f.name === name)?.url
FeedUrl(feeds, name) ==
    LET hits == {i \in 1..Len(feeds) : feeds[i].name = name}
    IN  IF hits = {} THEN NoUrl
        ELSE feeds[CHOOSE i \in hits : \A j \in hits : i <= j].url

\* an entry of station_information.data.stations
Station(station_id, capacity) == [station_id |-> station_id, capacity |-> capacity]

\* an entry of station_status.data.stations
StationStatus(station_id, bikes, docks, installed, renting, returning) ==
    [station_id |-> station_id, num_bikes_available |-> bikes, num_docks_available |-> docks,
     is_installed |-> installed, is_renting |-> renting, is_returning |-> returning]

\* find() met no entry with the station_id: undefined
NoStatus == StationStatus("", 0, 0, FALSE, FALSE, FALSE)

\* stationStatus.data.stations.find(s => s.station_id === station.station_id)
FindStatus(statuses, station_id) ==
    LET hits == {i \in 1..Len(statuses) : statuses[i].station_id = station_id}
    IN  IF hits = {} THEN NoStatus
        ELSE statuses[CHOOSE i \in hits : \A j \in hits : i <= j]

\* the four accumulators before the first station
NoTotals ==
    [total_bikes_available |-> 0, total_docks_available |-> 0,
     active_stations |-> 0, total_capacity |-> 0]

\* IsActive that asks for an installed station only
IsActive_InstalledOnly(status) == status.is_installed

\* is_active = status.is_installed && status.is_renting && status.is_returning
IsActive(status) == status.is_installed /\ status.is_renting /\ status.is_returning

\* AddStation that counts a station without status entry as capacity
AddStation_CountUnmatched(totals, station, statuses) ==
    LET status == FindStatus(statuses, station.station_id)
    IN  IF status = NoStatus
        THEN [totals EXCEPT !.total_capacity = @ + station.capacity]
        ELSE IF IsActive(status)
        THEN [total_bikes_available |-> totals.total_bikes_available + status.num_bikes_available,
              total_docks_available |-> totals.total_docks_available + status.num_docks_available,
              active_stations       |-> totals.active_stations + 1,
              total_capacity        |-> totals.total_capacity + station.capacity]
        ELSE [totals EXCEPT !.total_capacity = @ + station.capacity]

\* the body of stationInfo.data.stations.forEach for one station
AddStation(totals, station, statuses) ==
    LET status == FindStatus(statuses, station.station_id)
    IN  IF status = NoStatus THEN totals
        ELSE IF IsActive(status)
        THEN [total_bikes_available |-> totals.total_bikes_available + status.num_bikes_available,
              total_docks_available |-> totals.total_docks_available + status.num_docks_available,
              active_stations       |-> totals.active_stations + 1,
              total_capacity        |-> totals.total_capacity + station.capacity]
        ELSE [totals EXCEPT !.total_capacity = @ + station.capacity]

RECURSIVE Accumulate(_, _, _)
\* the accumulators after forEach has visited the first n stations
Accumulate(stations, statuses, n) ==
    IF n = 0 THEN NoTotals
    ELSE AddStation(Accumulate(stations, statuses, n - 1), stations[n], statuses)

\* TotalStations that counts station_ids, not entries
TotalStations_DistinctIds(stations) ==
    Cardinality({stations[i].station_id : i \in 1..Len(stations)})

\* total_stations: stationInfo.data.stations.length
TotalStations(stations) == Len(stations)

\* the BikeStats object collectProviderData returns
BikeStats(provider, timestamp, stations, statuses) ==
    LET totals == Accumulate(stations, statuses, Len(stations))
    IN  [provider              |-> provider,
         timestamp             |-> timestamp,
         total_stations        |-> TotalStations(stations),
         total_capacity        |-> totals.total_capacity,
         total_bikes_available |-> totals.total_bikes_available,
         total_docks_available |-> totals.total_docks_available,
         active_stations       |-> totals.active_stations]

NoStats == BikeStats("", 0, <<>>, <<>>)

\* one run of collectProviderData after the clock was read: the requests it
\* makes, in order, and the BikeStats it resolves with or the error it throws
NormalizeFeeds(provider, timestamp, fetched) ==
    LET gbfs == fetched.gbfs
        feeds == ProbeFeeds(gbfs)
        stationInfoUrl == FeedUrl(feeds.feeds, "station_information")
        stationStatusUrl == FeedUrl(feeds.feeds, "station_status")
        failure(requests, error) ==
            [ok |-> FALSE, requests |-> requests, error |-> error, stats |-> NoStats]
    IN  IF gbfs.kind = "networkError" THEN failure(<<"gbfs">>, "Network Error")
        ELSE IF gbfs.kind = "noData" THEN failure(<<"gbfs">>, "TypeError")
        ELSE IF ~feeds.present THEN failure(<<"gbfs">>, "No feeds found for provider")
        ELSE IF stationInfoUrl = NoUrl \/ stationStatusUrl = NoUrl
        THEN failure(<<"gbfs">>, "Required feeds not found for provider")
        ELSE IF ~fetched.stationInfo.ok \/ ~fetched.stationStatus.ok
        THEN failure(<<"gbfs", stationInfoUrl, stationStatusUrl>>, "Network Error")
        ELSE [ok       |-> TRUE,
              requests |-> <<"gbfs", stationInfoUrl, stationStatusUrl>>,
              error    |-> "",
              stats    |-> BikeStats(provider, timestamp, fetched.stationInfo.stations,
                                     fetched.stationStatus.stations)]

\* ---------------------------------------------------------------- Collector
NoSummary == [total |-> -1, success |-> -1, failed |-> -1]

\* a discovery document with both sub-feeds under data.en.feeds
GoodGbfs ==
    GbfsResponse("document",
                 FeedList(TRUE, <<Feed("en", "station_information"), Feed("en", "station_status")>>),
                 NoFeedList, NoFeedList)

\* the feeds of a provider with two stations, one active, one not renting
GoodFetched ==
    Fetched(GoodGbfs,
            StationsResponse(TRUE, <<Station("s1", 10), Station("s2", 8)>>),
            StationsResponse(TRUE, <<StationStatus("s1", 3, 5, TRUE, TRUE, TRUE),
                                     StationStatus("s2", 4, 2, TRUE, FALSE, TRUE)>>))

NothingFetched ==
    Fetched(NetworkError, StationsResponse(FALSE, <<>>), StationsResponse(FALSE, <<>>))

PendingTask ==
    [st |-> "idle", timestamp |-> 0, settled |-> "none", status |-> "none",
     fetched |-> NothingFetched, requests |-> <<>>, error |-> "", stats |-> NoStats,
     stored |-> "none", writes |-> <<>>]

\* StatsItem with the date of the timestamp in local time (UTC+1)
StatsItem_LocalDate(provider, timestamp, storeNow) ==
    [provider_id |-> provider,
     timestamp   |-> timestamp,
     date        |-> getDateString(timestamp * 1000 + HourMs),
     expiry_time |-> storeNow \div 1000 + CollectorRetentionDays * 24 * 60 * 60]

\* the item storeStats writes
StatsItem(provider, timestamp, storeNow) ==
    [provider_id |-> provider,
     timestamp   |-> timestamp,
     date        |-> getDateString(timestamp * 1000),
     expiry_time |-> storeNow \div 1000 + CollectorRetentionDays * 24 * 60 * 60]

\* process.env of a deployed lambda: both variables are set
Configured == [PROVIDERS |-> TRUE, DYNAMODB_TABLE |-> TRUE]

\* the environments an invocation may meet: each variable set or not
Environments == [PROVIDERS : BOOLEAN, DYNAMODB_TABLE : BOOLEAN]

\* handler: Promise.allSettled(providers.map(async ...)) starts every callback;
\* each runs collectProviderData up to its first await, which reads the clock.
\* Without PROVIDERS, JSON.parse(undefined) throws into the outer catch: 500.
CollectorInvoke ==
    /\ colPc # "running"
    /\ Cardinality(table) + Len(PROVIDERS) <= MaxRecords
    /\ colPc' = IF env.PROVIDERS THEN "running" ELSE "returned"
    /\ colTask' = [p \in ProviderNames |->
                     IF env.PROVIDERS
                     THEN [PendingTask EXCEPT !.st = "fetching", !.timestamp = now \div 1000]
                     ELSE PendingTask]
    /\ colSummary' = NoSummary
    /\ colStatusCode' = IF env.PROVIDERS THEN 0 ELSE 500
    /\ UNCHANGED <<now, ticks, table, bucket, swVars, wsVars, env, runs>>

\* the callback's catch: the throw becomes a returned {status: 'error'} object
\* and the promise of the callback is fulfilled
Caught(task, error) ==
    [task EXCEPT !.st = "settled", !.settled = "fulfilled", !.status = "error",
                 !.error = error]

\* collectProviderData resolves with the stats, or throws (network error, no
\* feed list, required feed missing); the callback's catch turns the throw
\* into a returned {status: 'error'} object
CollectProviderData(p, fetched) ==
    /\ colPc = "running"
    /\ colTask[p].st = "fetching"
    /\ LET r == NormalizeFeeds(p, colTask[p].timestamp, fetched)
           task == [colTask[p] EXCEPT !.fetched = fetched, !.requests = r.requests]
       IN  colTask' = [colTask EXCEPT ![p] =
                         IF r.ok THEN [task EXCEPT !.st = "storing", !.stats = r.stats]
                         ELSE Caught(task, r.error)]
    /\ UNCHANGED <<now, ticks, table, colPc, colSummary, colStatusCode, bucket,
                   swVars, wsVars, env, runs>>

\* storeStats: one PutCommand, or a store error caught by the callback; a
\* PutCommand whose TableName is undefined (no DYNAMODB_TABLE) is rejected
StoreStats(p, ok) ==
    /\ colPc = "running"
    /\ colTask[p].st = "storing"
    /\ ok => env.DYNAMODB_TABLE
    /\ table' = IF ok THEN PutItem(table, StatsItem(p, colTask[p].stats.timestamp, now))
                ELSE table
    /\ colTask' = [colTask EXCEPT ![p] =
                     IF ok
                     THEN [@ EXCEPT !.st = "settled", !.settled = "fulfilled",
                                    !.status = "success", !.stored = "ok",
                                    !.writes = <<Key(StatsItem(p, colTask[p].stats.timestamp, now))>>]
                     ELSE Caught([@ EXCEPT !.stored = "failed"], "store error")]
    /\ UNCHANGED <<now, ticks, colPc, colSummary, colStatusCode, bucket, swVars, wsVars, env, runs>>

\* results.filter(r => r.status === 'fulfilled' / 'rejected').length
Summary(tasks) ==
    [total   |-> Len(PROVIDERS),
     success |-> Cardinality({p \in ProviderNames : tasks[p].settled = "fulfilled"}),
     failed  |-> Cardinality({p \in ProviderNames : tasks[p].settled = "rejected"})]

\* the join: every callback has settled, the handler returns 200 with the summary
CollectorReturn ==
    /\ colPc = "running"
    /\ \A p \in ProviderNames : colTask[p].st = "settled"
    /\ colPc' = "returned"
    /\ colSummary' = Summary(colTask)
    /\ colStatusCode' = 200
    /\ UNCHANGED <<now, ticks, table, colTask, bucket, swVars, wsVars, env, runs>>

\* what the network answers in the scheduled runs: the feeds of the example,
\* or nothing at all
CollectorFetches == {GoodFetched, NothingFetched}

CollectorStep ==
    \/ CollectorInvoke
    \/ \E p \in ProviderNames, fetched \in CollectorFetches : CollectProviderData(p, fetched)
    \/ \E p \in ProviderNames, ok \in BOOLEAN : StoreStats(p, ok)
    \/ CollectorReturn

\* ------------------------------------------- Collector mirroring to the bucket
\* an object of the bucket; the body is realtimeData, of which datetime is kept
BlobObject(prefix, partition, file, datetime) ==
    [Key |-> [prefix |-> prefix, partition |-> partition, file |-> file],
     datetime |-> datetime]

\* PutObjectCommand: an object with the same Key is replaced
PutObject(b, object) == {o \in b : o.Key # object.Key} \cup {object}

\* storeData: the three objects, in the order they are put
StoreDataObjects(stats) ==
    LET date == getDateString(stats.timestamp * 1000)
        hour == ((stats.timestamp * 1000) % DayMs) \div HourMs
    IN  <<BlobObject("realtime/current/", <<>>, <<stats.provider>>, stats.timestamp),
          BlobObject("historical/", <<date[1], date[2], date[3], hour>>,
                     <<stats.provider, stats.timestamp>>, stats.timestamp),
          BlobObject("realtime/latest/", <<>>, <<stats.provider, "snapshot">>, stats.timestamp)>>

RECURSIVE PutObjects(_, _, _)
\* the bucket after the first n objects were put
PutObjects(b, objects, n) ==
    IF n = 0 THEN b ELSE PutObject(PutObjects(b, objects, n - 1), objects[n])

\* storeData: three PutObjectCommands one after the other; the failAt-th, if
\* there is one, is rejected and the callback's catch takes over
StoreData(p, failAt) ==
    /\ colPc = "running"
    /\ colTask[p].st = "storing"
    /\ LET objects == StoreDataObjects(colTask[p].stats)
           done == IF failAt = 0 THEN Len(objects) ELSE failAt - 1
           written == [i \in 1..done |-> objects[i].Key]
       IN  /\ bucket' = PutObjects(bucket, objects, done)
           /\ colTask' = [colTask EXCEPT ![p] =
                            IF failAt = 0
                            THEN [@ EXCEPT !.st = "settled", !.settled = "fulfilled",
                                           !.status = "success", !.stored = "ok",
                                           !.writes = written]
                            ELSE Caught([@ EXCEPT !.stored = "failed", !.writes = written],
                                        "store error")]
    /\ UNCHANGED <<now, ticks, table, colPc, colSummary, colStatusCode, swVars, wsVars, env, runs>>

\* the join of the mirroring handler: 200, the results, no summary
BlobCollectorReturn ==
    /\ colPc = "running"
    /\ \A p \in ProviderNames : colTask[p].st = "settled"
    /\ colPc' = "returned"
    /\ colStatusCode' = 200
    /\ UNCHANGED <<now, ticks, table, colTask, colSummary, bucket, swVars, wsVars, env, runs>>

BlobCollectorStep ==
    \/ CollectorInvoke
    \/ \E p \in ProviderNames, fetched \in CollectorFetches : CollectProviderData(p, fetched)
    \/ \E p \in ProviderNames, failAt \in 0..3 : StoreData(p, failAt)
    \/ BlobCollectorReturn

\* ------------------------------- overlapping runs of the mirroring Collector
\* The handler is invoked again (a second trigger, a retried asynchronous
\* invocation) while an earlier invocation is still in storeData; each run is
\* its own process and they share only the bucket.
RunIds == 1..MaxRuns

IdleRun == [st |-> "idle", stats |-> NoStats, puts |-> 0]

\* a run up to storeData: collectProviderData reads the clock and normalises
\* the feeds of the provider
OverlapStart(r) ==
    /\ runs[r].st = "idle"
    /\ runs' = [runs EXCEPT ![r] =
                  [st |-> "storing",
                   stats |-> NormalizeFeeds(PROVIDERS[1], now \div 1000, GoodFetched).stats,
                   puts |-> 0]]
    /\ UNCHANGED <<now, ticks, table, colPc, colTask, colSummary, colStatusCode, bucket,
                   env, swVars, wsVars>>

\* storeData of run r: its next PutObjectCommand; a rejected one throws out of
\* storeData and the run ends without the puts that would have followed
OverlapPut(r, ok) ==
    /\ runs[r].st = "storing"
    /\ LET objects == StoreDataObjects(runs[r].stats)
           n == runs[r].puts + 1
       IN  /\ bucket' = IF ok THEN PutObject(bucket, objects[n]) ELSE bucket
           /\ runs' = [runs EXCEPT ![r] =
                         IF ~ok THEN [@ EXCEPT !.st = "failed"]
                         ELSE IF n = Len(objects) THEN [@ EXCEPT !.st = "done", !.puts = n]
                         ELSE [@ EXCEPT !.puts = n]]
    /\ UNCHANGED <<now, ticks, table, colPc, colTask, colSummary, colStatusCode,
                   env, swVars, wsVars>>

OverlapStep ==
    \/ \E r \in RunIds : OverlapStart(r)
    \/ \E r \in RunIds, ok \in BOOLEAN : OverlapPut(r, ok)

\* the point-read endpoint: GetObject realtime/latest/<provider>_snapshot.json
\* for each provider, null where there is none, filter(Boolean)
ReadLatest(b) ==
    LET slot(p) == {o \in b : o.Key = [prefix |-> "realtime/latest/", partition |-> <<>>,
                                       file |-> <<p, "snapshot">>]}
    IN  [p \in {q \in ProviderNames : slot(q) # {}} |-> (CHOOSE o \in slot(p) : TRUE).datetime]

\* --------------------------------------------------------- Retention Sweeper
BATCH_SIZE == 25
MAX_RETRIES == 3
RETRY_DELAY_MS == 1000

\* RETENTION_DAYS in the environment of the cleanup lambda
RETENTION_DAYS == 5

\* the table as 15-minute collection cycles of provider PROVIDERS[1] left it
\* before InitialNow: more old records than one Query page holds
SeedCount == PageLimit + 1

SeedTable == {StatsItem(PROVIDERS[1], k * 15 * 60, k * 15 * MinuteMs) : k \in 0..(SeedCount - 1)}

NoKey == <<>>

SweeperIdle ==
    [pc |-> "idle", cutoffTime |-> 0, idx |-> 0, lastEvaluatedKey |-> NoKey,
     nextKey |-> NoKey, batches |-> <<>>, unprocessedItems |-> {}, retries |-> 0]

\* no invocation came before
NoHistory == [pc |-> "idle", cutoffTime |-> 0, deleted |-> {}, table |-> {}]

RECURSIVE SortByTimestamp(_)
\* the items of a set in ascending order of the sort key
SortByTimestamp(S) ==
    IF S = {} THEN <<>>
    ELSE LET first == CHOOSE r \in S : \A q \in S : r.timestamp <= q.timestamp
         IN  <<first>> \o SortByTimestamp(S \ {first})

\* QueryPage without the continuation key: the caller sees one page only
QueryPage_FirstPageOnly(t, pid, cutoff, startKey) ==
    LET sorted == SortByTimestamp({r \in t : /\ r.provider_id = pid
                                            /\ r.timestamp < cutoff
                                            /\ (startKey = NoKey \/ r.timestamp > startKey[1])})
    IN  [Items |-> IF Len(sorted) > PageLimit THEN SubSeq(sorted, 1, PageLimit) ELSE sorted,
         LastEvaluatedKey |-> NoKey]

\* QueryPage without the condition on the partition key
QueryPage_AnyProvider(t, pid, cutoff, startKey) ==
    LET matches == {r \in t : /\ r.timestamp < cutoff
                              /\ (startKey = NoKey \/ r.timestamp > startKey[1])}
        sorted == SortByTimestamp(matches)
    IN  IF Len(sorted) > PageLimit
        THEN [Items |-> SubSeq(sorted, 1, PageLimit),
              LastEvaluatedKey |-> <<sorted[PageLimit].timestamp>>]
        ELSE [Items |-> sorted, LastEvaluatedKey |-> NoKey]

\* QueryCommand on the primary key: provider_id = :pid AND #ts < :cutoff, from
\* ExclusiveStartKey on, at most one page; LastEvaluatedKey when more remain
QueryPage(t, pid, cutoff, startKey) ==
    LET matches == {r \in t : /\ r.provider_id = pid
                              /\ r.timestamp < cutoff
                              /\ (startKey = NoKey \/ r.timestamp > startKey[1])}
        sorted == SortByTimestamp(matches)
    IN  IF Len(sorted) > PageLimit
        THEN [Items |-> SubSeq(sorted, 1, PageLimit),
              LastEvaluatedKey |-> <<sorted[PageLimit].timestamp>>]
        ELSE [Items |-> sorted, LastEvaluatedKey |-> NoKey]

\* chunkArray that returns the first chunk only
chunkArray_FirstChunkOnly(array, size) ==
    IF Len(array) = 0 THEN <<>>
    ELSE IF Len(array) <= size THEN <<array>>
    ELSE <<SubSeq(array, 1, size)>>

RECURSIVE chunkArray(_, _)
chunkArray(array, size) ==
    IF Len(array) = 0 THEN <<>>
    ELSE IF Len(array) <= size THEN <<array>>
    ELSE <<SubSeq(array, 1, size)>> \o chunkArray(SubSeq(array, size + 1, Len(array)), size)

\* deleteItemsBatch: the DeleteRequest keys of a batch
DeleteRequests(items) == {Key(items[i]) : i \in 1..Len(items)}

\* handler, for loop: cleanupProviderData of the next provider, or return 200
NextProvider(s) ==
    IF s.idx < Len(PROVIDERS)
    THEN [s EXCEPT !.idx = @ + 1, !.lastEvaluatedKey = NoKey, !.nextKey = NoKey,
                   !.batches = <<>>, !.unprocessedItems = {}, !.retries = 0,
                   !.pc = "query"]
    ELSE [s EXCEPT !.pc = "done", !.batches = <<>>, !.unprocessedItems = {}]

\* cleanupProviderData: lastEvaluatedKey = queryResult.LastEvaluatedKey;
\* while (lastEvaluatedKey)
AfterPage(s) ==
    IF s.nextKey # NoKey
    THEN [s EXCEPT !.lastEvaluatedKey = s.nextKey, !.nextKey = NoKey,
                   !.batches = <<>>, !.unprocessedItems = {}, !.pc = "query"]
    ELSE NextProvider(s)

\* cleanupProviderData: for (const batch of batches), after a batch went through
AfterBatch(s) ==
    IF Len(s.batches) > 1
    THEN [s EXCEPT !.batches = Tail(@),
                   !.unprocessedItems = DeleteRequests(s.batches[2]),
                   !.retries = 0, !.pc = "send"]
    ELSE AfterPage(s)

\* the CleanupErrors on the way out of handler: deleteItemsBatch (or the store
\* call) throws, cleanupProviderData wraps, handler wraps again
ThrowChain(inner) ==
    <<inner, "Failed to cleanup data for provider", "Failed to complete cleanup process">>

Failed(s) == [s EXCEPT !.pc = "failed"]

\* handler up to the first await: the table name, cutoffTime, the provider
\* list, the first cleanupProviderData.  Without DYNAMODB_TABLE the handler
\* throws before its try block; without PROVIDERS, JSON.parse(undefined)
\* throws inside it and the catch wraps the error.
SweeperInvoke ==
    /\ sw.pc \in {"idle", "done", "failed"}
    /\ sw' = IF ~env.DYNAMODB_TABLE THEN Failed(SweeperIdle)
             ELSE LET s == [SweeperIdle EXCEPT
                              !.cutoffTime = now - RETENTION_DAYS * 24 * 60 * 60 * 1000]
                  IN  IF env.PROVIDERS THEN NextProvider(s) ELSE Failed(s)
    /\ swStarted' = IF sw'.pc = "query" THEN {PROVIDERS[sw'.idx]} ELSE {}
    /\ swCompleted' = {}
    /\ swDeleted' = {}
    /\ swSent' = <<>>
    /\ swResp' = <<>>
    /\ swSleeps' = <<>>
    /\ swThrown' = IF ~env.DYNAMODB_TABLE
                   THEN <<"DYNAMODB_TABLE environment variable is not set">>
                   ELSE IF ~env.PROVIDERS THEN <<"Failed to complete cleanup process">>
                   ELSE <<>>
    /\ swHist' = [pc |-> sw.pc, cutoffTime |-> sw.cutoffTime, deleted |-> swDeleted,
                  table |-> table]
    /\ UNCHANGED <<now, ticks, table, colVars, wsVars>>

\* what follows in the invocation once sw' is known
SweeperProgress ==
    /\ swStarted' = IF sw'.pc = "query" THEN swStarted \cup {PROVIDERS[sw'.idx]}
                    ELSE swStarted
    /\ swCompleted' = IF sw'.pc = "done" \/ sw'.idx # sw.idx
                      THEN swCompleted \cup {PROVIDERS[sw.idx]}
                      ELSE swCompleted

\* cleanupProviderData: one QueryCommand and what follows up to the next await
SweeperQuery(ok) ==
    /\ sw.pc = "query"
    /\ LET result == QueryPage(table, PROVIDERS[sw.idx], sw.cutoffTime, sw.lastEvaluatedKey)
           batches == chunkArray(result.Items, BATCH_SIZE)
       IN  IF ~ok
           THEN /\ sw' = Failed(sw)
                /\ swThrown' = <<"Failed to cleanup data for provider",
                                 "Failed to complete cleanup process">>
                /\ UNCHANGED <<swSent, swResp, swSleeps>>
           ELSE IF Len(result.Items) > 0
           THEN /\ sw' = [sw EXCEPT !.nextKey = result.LastEvaluatedKey,
                                    !.batches = batches,
                                    !.unprocessedItems = DeleteRequests(batches[1]),
                                    !.retries = 0, !.pc = "send"]
                /\ UNCHANGED <<swSent, swResp, swSleeps, swThrown>>
           ELSE /\ sw' = AfterPage([sw EXCEPT !.nextKey = result.LastEvaluatedKey])
                /\ UNCHANGED <<swSent, swResp, swSleeps, swThrown>>
    /\ SweeperProgress
    /\ UNCHANGED <<now, ticks, table, colVars, wsVars, swDeleted, swHist>>

\* the ways the store may process a BatchWrite request: any part of a small
\* request; all, none or all but one key of a large one
ProcessedChoices(req) ==
    IF Cardinality(req) <= SmallRequest THEN SUBSET req
    ELSE LET k == CHOOSE k \in req : \A q \in req : k[2] <= q[2]
         IN  {req, {}, req \ {k}}

\* RetryRequest that does not count the attempt
RetryRequest_NoCount(s, unprocessed) ==
    [s EXCEPT !.unprocessedItems = unprocessed]

\* RetryRequest that sends the whole request again
RetryRequest_ResendAll(s, unprocessed) ==
    [s EXCEPT !.retries = @ + 1]

\* deleteItemsBatch, while loop after a response with unprocessed keys
RetryRequest(s, unprocessed) ==
    [s EXCEPT !.unprocessedItems = unprocessed, !.retries = @ + 1]

\* deleteItemsBatch: one BatchWriteCommand and what follows up to the next await
\* (the first attempt of a batch starts the record of its attempts afresh)
SweeperSend(processed, ok) ==
    /\ sw.pc = "send"
    /\ LET sent == IF sw.retries = 0 THEN <<>> ELSE swSent
           resp == IF sw.retries = 0 THEN <<>> ELSE swResp
           sleeps == IF sw.retries = 0 THEN <<>> ELSE swSleeps
           unprocessed == sw.unprocessedItems \ processed
           retried == RetryRequest(sw, unprocessed)
       IN  /\ swSent' = Append(sent, sw.unprocessedItems)
           /\ IF ~ok
              THEN /\ sw' = Failed(sw)
                   /\ swThrown' = ThrowChain("Failed to process batch delete")
                   /\ swResp' = resp
                   /\ swSleeps' = sleeps
                   /\ UNCHANGED <<table, swDeleted>>
              ELSE /\ table' = {r \in table : Key(r) \notin processed}
                   /\ swDeleted' = swDeleted \cup
                                     {Key(r) : r \in {q \in table : Key(q) \in processed}}
                   /\ swResp' = Append(resp, unprocessed)
                   /\ IF unprocessed = {}
                      THEN /\ sw' = AfterBatch(sw)
                           /\ swSleeps' = sleeps
                           /\ UNCHANGED swThrown
                      ELSE IF retried.retries < MAX_RETRIES
                      THEN /\ sw' = [retried EXCEPT !.pc = "sleep"]
                           /\ swSleeps' = Append(sleeps, RETRY_DELAY_MS * retried.retries)
                           /\ UNCHANGED swThrown
                      ELSE /\ sw' = Failed(retried)
                           /\ swThrown' = ThrowChain("Max retries reached for batch delete")
                           /\ swSleeps' = sleeps
    /\ SweeperProgress
    /\ UNCHANGED <<now, ticks, colVars, wsVars, swHist>>

\* sleep(CONFIG.RETRY_DELAY_MS * retries) is over
SweeperWake ==
    /\ sw.pc = "sleep"
    /\ sw' = [sw EXCEPT !.pc = "send"]
    /\ UNCHANGED <<now, ticks, table, colVars, wsVars, swStarted, swCompleted,
                   swDeleted, swSent, swResp, swSleeps, swThrown, swHist>>

SweeperRunning == sw.pc \in {"query", "send", "sleep"}

SweeperStep ==
    \/ SweeperInvoke
    \/ \E ok \in BOOLEAN : SweeperQuery(ok)
    \/ \E processed \in ProcessedChoices(sw.unprocessedItems), ok \in BOOLEAN :
          SweeperSend(processed, ok)
    \/ SweeperWake

\* ------------------------------------------------- WebSocket query handler
ConnectionIds == {"c1", "c2"}

\* startDate / endDate of a request body: absent, the empty string, a string
\* that is no date, or the ISO-8601 string YYYY-MM-DDTHH:MM:00Z
DateField(text, y, m, d, h, mi) ==
    [text |-> text, y |-> y, m |-> m, d |-> d, h |-> h, mi |-> mi]

Undefined == DateField("undefined", 0, 0, 0, 0, 0)

EmptyString == DateField("", 0, 0, 0, 0, 0)

Iso(y, m, d, h, mi) == DateField("iso", y, m, d, h, mi)

\* JavaScript truthiness of an optional string
Truthy(field) == field.text \notin {"undefined", ""}

\* new Date(field).getTime(): milliseconds since the epoch, NaN when the
\* string is no date or names a month, day or time that does not exist
ParseDate(field) ==
    IF /\ field.text = "iso"
       /\ field.m \in 1..12
       /\ field.d >= 1
       /\ CivilFromDays(DaysFromCivil(field.y, field.m, field.d)) = <<field.y, field.m, field.d>>
       /\ field.h \in 0..23
       /\ field.mi \in 0..59
    THEN DaysFromCivil(field.y, field.m, field.d) * DayMs + field.h * HourMs + field.mi * MinuteMs
    ELSE NaN

\* a <= b on JavaScript numbers: false when either is NaN
Lte(a, b) == a # NaN /\ b # NaN /\ a <= b

\* Window that falls back to the trailing hour as soon as one bound is missing
Window_AllOrNothing(startDateIso, endDateIso, t) ==
    IF Truthy(startDateIso) /\ Truthy(endDateIso)
    THEN [startTimestamp |-> ParseDate(startDateIso), endTimestamp |-> ParseDate(endDateIso)]
    ELSE [startTimestamp |-> t - 60 * 60 * 1000, endTimestamp |-> t]

\* getBikeStats: startTimestamp and endTimestamp
Window(startDateIso, endDateIso, t) ==
    [startTimestamp |-> IF Truthy(startDateIso) THEN ParseDate(startDateIso) ELSE t - 60 * 60 * 1000,
     endTimestamp   |-> IF Truthy(endDateIso) THEN ParseDate(endDateIso) ELSE t]

RECURSIVE getDatesBetween(_, _)
\* the dates of startTime, startTime + 1 day, ... while <= endTime, each once,
\* in insertion order
getDatesBetween(startTime, endTime) ==
    IF Lte(startTime, endTime)
    THEN LET date == getDateString(startTime)
             rest == getDatesBetween(startTime + 24 * 60 * 60 * 1000, endTime)
         IN  IF \E i \in 1..Len(rest) : rest[i] = date THEN rest ELSE <<date>> \o rest
    ELSE <<>>

\* QueryDateIndex without the BETWEEN condition on the sort key
QueryDateIndex_WholePartition(t, params) ==
    LET sorted == SortByTimestamp({r \in t : r.date = params.date})
    IN  IF Len(sorted) > PageLimit THEN SubSeq(sorted, 1, PageLimit) ELSE sorted

\* QueryCommand on DateIndex: #date = :date AND #ts BETWEEN :start AND :end,
\* in index order; one page, the handler reads no LastEvaluatedKey
QueryDateIndex(t, params) ==
    LET sorted == SortByTimestamp({r \in t : /\ r.date = params.date
                                            /\ params.start <= r.timestamp
                                            /\ r.timestamp <= params.end})
    IN  IF Len(sorted) > PageLimit THEN SubSeq(sorted, 1, PageLimit) ELSE sorted

RECURSIVE InsertByTimestamp(_, _)
InsertByTimestamp(sorted, item) ==
    IF sorted = <<>> THEN <<item>>
    ELSE IF item.timestamp < Head(sorted).timestamp THEN <<item>> \o sorted
    ELSE <<Head(sorted)>> \o InsertByTimestamp(Tail(sorted), item)

\* SortResults with the comparator b.timestamp - a.timestamp
SortResults_NewestFirst(seq) ==
    LET n == Len(seq)
        sorted[k \in 0..n] == IF k = 0 THEN <<>> ELSE InsertByTimestamp(sorted[k - 1], seq[k])
    IN  [i \in 1..n |-> sorted[n][n + 1 - i]]

RECURSIVE SortResults(_)
\* allResults.sort((a, b) => a.timestamp - b.timestamp): stable
SortResults(seq) ==
    IF seq = <<>> THEN <<>>
    ELSE InsertByTimestamp(SortResults(SubSeq(seq, 1, Len(seq) - 1)), seq[Len(seq)])

RECURSIVE ConcatResults(_, _, _)
\* allResults after the queries 1..n
ConcatResults(t, paramsSeq, n) ==
    IF n = 0 THEN <<>>
    ELSE ConcatResults(t, paramsSeq, n - 1) \o QueryDateIndex(t, paramsSeq[n])

\* getBikeStats that throws when no record was found
getBikeStats_ThrowOnEmpty(startDateIso, endDateIso, t, tbl, failAt) ==
    LET w == Window(startDateIso, endDateIso, t)
        dates == getDatesBetween(w.startTimestamp, w.endTimestamp)
        params == [i \in 1..Len(dates) |->
                     [date  |-> dates[i],
                      start |-> w.startTimestamp \div 1000,
                      end   |-> w.endTimestamp \div 1000]]
        found == SortResults(ConcatResults(tbl, params, Len(dates)))
        threw == failAt \in 1..Len(dates) \/ found = <<>>
    IN  [startTimestamp |-> w.startTimestamp,
         endTimestamp   |-> w.endTimestamp,
         queries        |-> IF failAt \in 1..Len(dates) THEN SubSeq(params, 1, failAt) ELSE params,
         threw          |-> threw,
         stats          |-> IF threw THEN <<>> ELSE found]

\* getBikeStats that returns what it has when a query is rejected
getBikeStats_PartialOnFailure(startDateIso, endDateIso, t, tbl, failAt) ==
    LET w == Window(startDateIso, endDateIso, t)
        dates == getDatesBetween(w.startTimestamp, w.endTimestamp)
        params == [i \in 1..Len(dates) |->
                     [date  |-> dates[i],
                      start |-> w.startTimestamp \div 1000,
                      end   |-> w.endTimestamp \div 1000]]
        answered == IF failAt \in 1..Len(dates) THEN failAt - 1 ELSE Len(dates)
    IN  [startTimestamp |-> w.startTimestamp,
         endTimestamp   |-> w.endTimestamp,
         queries        |-> IF failAt \in 1..Len(dates) THEN SubSeq(params, 1, failAt) ELSE params,
         threw          |-> FALSE,
         stats          |-> SortResults(ConcatResults(tbl, params, answered))]

\* getBikeStats at time t over table tbl; the failAt-th query, if there is
\* one, is rejected by the store
getBikeStats(startDateIso, endDateIso, t, tbl, failAt) ==
    LET w == Window(startDateIso, endDateIso, t)
        dates == getDatesBetween(w.startTimestamp, w.endTimestamp)
        params == [i \in 1..Len(dates) |->
                     [date  |-> dates[i],
                      start |-> w.startTimestamp \div 1000,
                      end   |-> w.endTimestamp \div 1000]]
        threw == failAt \in 1..Len(dates)
    IN  [startTimestamp |-> w.startTimestamp,
         endTimestamp   |-> w.endTimestamp,
         queries        |-> IF threw THEN SubSeq(params, 1, failAt) ELSE params,
         threw          |-> threw,
         stats          |-> IF threw THEN <<>>
                            ELSE SortResults(ConcatResults(tbl, params, Len(dates)))]

\* event.body: absent, a string that is not JSON, or a JSON object
Body(kind, action, startDate, endDate) ==
    [kind |-> kind, action |-> action, startDate |-> startDate, endDate |-> endDate]

NoBody == Body("absent", "", Undefined, Undefined)

Malformed == Body("malformed", "", Undefined, Undefined)

NoEvent ==
    [routeKey |-> "", connectionId |-> "", body |-> NoBody, now |-> 0,
     startTimestamp |-> 0, endTimestamp |-> 0, queries |-> <<>>, posts |-> <<>>,
     threw |-> FALSE, statusCode |-> 0, failAt |-> 0]

\* PostToConnectionCommand addressed to a connection of the registry, if
\* there is one, whoever sent the request
Post_Broadcast(connectionId, type, data, message) ==
    [ConnectionId |-> IF connections = {} THEN connectionId
                      ELSE (CHOOSE r \in connections : r.connection_id # connectionId
                                                        \/ Cardinality(connections) = 1).connection_id,
     type |-> type, data |-> data, message |-> message]

\* PostToConnectionCommand; the gateway is taken to accept every post
Post(connectionId, type, data, message) ==
    [ConnectionId |-> connectionId, type |-> type, data |-> data, message |-> message]

\* nothing was accepted for the connection id yet
NoLog == [last |-> "none", redundant |-> FALSE]

\* PutCommand on the connections table with every item kept, whatever its key
PutConnection_Append(regs, item) == regs \cup {item}

\* PutCommand on the connections table (hash key connection_id): an item
\* with the same key is replaced
PutConnection(regs, item) ==
    {r \in regs : r.connection_id # item.connection_id} \cup {item}

\* DeleteCommand by key: nothing happens if there is no such item
DeleteConnection(regs, c) == {r \in regs : r.connection_id # c}

\* the registry holds an item for the connection id
Registered(regs, c) == \E r \in regs : r.connection_id = c

\* $connect: handleConnect, one PutCommand; a store error ends in handler's catch
HandleConnect(c, ok) ==
    /\ connections' = IF ok
                      THEN PutConnection(connections, [connection_id |-> c, timestamp |-> now])
                      ELSE connections
    /\ registryLog' = IF ok
                      THEN [registryLog EXCEPT ![c] =
                              [last |-> "connect", redundant |-> Registered(connections, c)]]
                      ELSE registryLog
    /\ ws' = [NoEvent EXCEPT !.routeKey = "$connect", !.connectionId = c, !.now = now,
                             !.failAt = IF ok THEN 0 ELSE 1,
                             !.threw = ~ok,
                             !.statusCode = IF ok THEN 200 ELSE 500]
    /\ UNCHANGED <<now, ticks, table, colVars, swVars>>

\* $disconnect: handleDisconnect, one DeleteCommand
HandleDisconnect(c, ok) ==
    /\ connections' = IF ok THEN DeleteConnection(connections, c) ELSE connections
    /\ registryLog' = IF ok
                      THEN [registryLog EXCEPT ![c] =
                              [last |-> "disconnect", redundant |-> ~Registered(connections, c)]]
                      ELSE registryLog
    /\ ws' = [NoEvent EXCEPT !.routeKey = "$disconnect", !.connectionId = c, !.now = now,
                             !.failAt = IF ok THEN 0 ELSE 1,
                             !.threw = ~ok,
                             !.statusCode = IF ok THEN 200 ELSE 500]
    /\ UNCHANGED <<now, ticks, table, colVars, swVars>>

\* $default: handleMessage inside handler.  JSON.parse stands before the try
\* block: a body that is not JSON throws out of handleMessage, handler
\* catches and returns 500.
HandleMessage(c, body, failAt) ==
    /\ LET event == [NoEvent EXCEPT !.routeKey = "$default", !.connectionId = c,
                                    !.body = body, !.now = now, !.failAt = failAt]
           result == getBikeStats(body.startDate, body.endDate, now, table, failAt)
       IN  ws' = IF body.kind = "malformed"
                 THEN [event EXCEPT !.threw = TRUE, !.statusCode = 500]
                 ELSE IF body.kind = "absent" \/ body.action # "getBikeStats"
                 THEN [event EXCEPT !.posts = <<Post(c, "error", <<>>, "Invalid action")>>,
                                    !.statusCode = 200]
                 ELSE [event EXCEPT
                         !.startTimestamp = result.startTimestamp,
                         !.endTimestamp = result.endTimestamp,
                         !.queries = result.queries,
                         !.posts = IF result.threw
                                   THEN <<Post(c, "error", <<>>, "store error")>>
                                   ELSE <<Post(c, "bikeStats", result.stats, "")>>,
                         !.statusCode = 200]
    /\ UNCHANGED <<now, ticks, table, colVars, swVars, connections, registryLog>>

\* the request bodies tried
DateInputs ==
    {Undefined, EmptyString, DateField("not-a-date", 0, 0, 0, 0, 0), Iso(1970, 13, 1, 0, 0),
     Iso(1970, 1, 1, 0, 0), Iso(1970, 1, 1, 12, 0), Iso(1970, 1, 2, 0, 0),
     Iso(1970, 1, 2, 6, 0)}

Bodies ==
    {NoBody, Malformed}
    \cup {Body("json", "ping", Undefined, Undefined)}
    \cup {Body("json", "getBikeStats", s, e) : s \in DateInputs, e \in DateInputs}

\* the number of DateIndex queries a request asks for
NumQueries(body, t) ==
    IF body.kind = "json" /\ body.action = "getBikeStats"
    THEN Len(getDatesBetween(Window(body.startDate, body.endDate, t).startTimestamp,
                             Window(body.startDate, body.endDate, t).endTimestamp))
    ELSE 0

\* handler has returned: the invocation and its locals are gone
HandlerReturned ==
    /\ ws # NoEvent
    /\ ws' = NoEvent
    /\ UNCHANGED <<now, ticks, table, colVars, swVars, connections, registryLog>>

RegistryStep ==
    \/ \E c \in ConnectionIds, ok \in BOOLEAN : ws = NoEvent /\ HandleConnect(c, ok)
    \/ \E c \in ConnectionIds, ok \in BOOLEAN : ws = NoEvent /\ HandleDisconnect(c, ok)
    \/ HandlerReturned

MessageStep ==
    \/ \E c \in ConnectionIds, body \in Bodies, failAt \in 0..MaxFailAt :
          /\ ws = NoEvent
          /\ failAt <= NumQueries(body, now)
          /\ HandleMessage(c, body, failAt)
    \/ HandlerReturned

\* ------------------------------------------------------------------- clock
\* A lambda invocation is cut off after 300 s (terraform timeout), far less
\* than a clock step: the clock steps between invocations.  Within an
\* invocation of the Collector the awaited requests take time: Elapse.
Tick(step) ==
    /\ colPc # "running"
    /\ ~SweeperRunning
    /\ ticks < MaxTicks
    /\ now + step < MaxDays * DayMs
    /\ now' = now + step
    /\ ticks' = ticks + 1
    /\ UNCHANGED <<table, colVars, swVars, wsVars>>

FetchMs == 1000

\* time passes while the callbacks of the Collector await the network
Elapse ==
    /\ colPc = "running"
    /\ ticks < MaxTicks
    /\ now + FetchMs < MaxDays * DayMs
    /\ now' = now + FetchMs
    /\ ticks' = ticks + 1
    /\ UNCHANGED <<table, colVars, swVars, wsVars>>

vars == <<now, ticks, table, colPc, colTask, colSummary, colStatusCode, bucket,
          env, runs,
          sw, swStarted, swCompleted, swDeleted, swSent, swResp, swSleeps, swThrown,
          swHist, connections, registryLog, ws>>

Init ==
    /\ now = InitialNow
    /\ ticks = 0
    /\ table = {}
    /\ colPc = "idle"
    /\ colTask = [p \in ProviderNames |-> PendingTask]
    /\ colSummary = NoSummary
    /\ colStatusCode = 0
    /\ bucket = {}
    /\ env = Configured
    /\ runs = [r \in RunIds |-> IdleRun]
    /\ sw = SweeperIdle
    /\ swStarted = {}
    /\ swCompleted = {}
    /\ swDeleted = {}
    /\ swSent = <<>>
    /\ swResp = <<>>
    /\ swSleeps = <<>>
    /\ swThrown = <<>>
    /\ swHist = NoHistory
    /\ connections = {}
    /\ registryLog = [c \in ConnectionIds |-> NoLog]
    /\ ws = NoEvent

CollectorNext ==
    \/ CollectorStep
    \/ Elapse
    \/ \E step \in TickSteps : Tick(step)

SpecCollector == Init /\ [][CollectorNext]_vars

\* the Sweeper starts a week after InitialNow, over a table the 15-minute
\* collection cycles have filled (SeedTable), or over what collections of
\* either provider at InitialNow and a week later have left
CollectionTimes == {InitialNow, InitialNow + 7 * DayMs}

\* a record of a provider that is not in the provider list
UnlistedItem == StatsItem("Z", 0, 0)

SweeperTables ==
    {SeedTable \cup {UnlistedItem}} \cup
    SUBSET {StatsItem(p, t \div 1000, t) : p \in ProviderNames, t \in CollectionTimes}

SweeperTickSteps == {3 * DayMs, 7 * DayMs}

SweeperInit ==
    /\ now = InitialNow + 7 * DayMs
    /\ ticks = 0
    /\ table \in SweeperTables
    /\ colPc = "idle"
    /\ colTask = [p \in ProviderNames |-> PendingTask]
    /\ colSummary = NoSummary
    /\ colStatusCode = 0
    /\ bucket = {}
    /\ env = Configured
    /\ runs = [r \in RunIds |-> IdleRun]
    /\ sw = SweeperIdle
    /\ swStarted = {}
    /\ swCompleted = {}
    /\ swDeleted = {}
    /\ swSent = <<>>
    /\ swResp = <<>>
    /\ swSleeps = <<>>
    /\ swThrown = <<>>
    /\ swHist = NoHistory
    /\ connections = {}
    /\ registryLog = [c \in ConnectionIds |-> NoLog]
    /\ ws = NoEvent

SweeperNext ==
    \/ SweeperStep
    \/ \E step \in SweeperTickSteps : Tick(step)

SpecSweeper == SweeperInit /\ [][SweeperNext]_vars

\* the Sweeper when every awaited call settles and every timer fires: the
\* store answers or rejects the Query and the BatchWrite, the sleep ends
SpecSweeperLive ==
    /\ SweeperInit
    /\ [][SweeperNext]_vars
    /\ WF_vars(\E ok \in BOOLEAN : SweeperQuery(ok))
    /\ WF_vars(\E processed \in ProcessedChoices(sw.unprocessedItems), ok \in BOOLEAN :
                  SweeperSend(processed, ok))
    /\ WF_vars(SweeperWake)

\* the query handler an hour after InitialNow (1970-01-02T00:30Z), over what
\* collections of either provider at InitialNow and an hour later have left
QueryCollectionTimes == {InitialNow, InitialNow + HourMs}

QueryTables ==
    SUBSET ({StatsItem(p, t \div 1000, t) : p \in ProviderNames, t \in QueryCollectionTimes}
            \ {StatsItem(PROVIDERS[2], InitialNow \div 1000, InitialNow)})

QueryTickSteps == {HourMs}

QueryInit ==
    /\ now = InitialNow + HourMs
    /\ ticks = 0
    /\ table \in QueryTables
    /\ colPc = "idle"
    /\ colTask = [p \in ProviderNames |-> PendingTask]
    /\ colSummary = NoSummary
    /\ colStatusCode = 0
    /\ bucket = {}
    /\ env = Configured
    /\ runs = [r \in RunIds |-> IdleRun]
    /\ sw = SweeperIdle
    /\ swStarted = {}
    /\ swCompleted = {}
    /\ swDeleted = {}
    /\ swSent = <<>>
    /\ swResp = <<>>
    /\ swSleeps = <<>>
    /\ swThrown = <<>>
    /\ swHist = NoHistory
    /\ connections = {}
    /\ registryLog = [c \in ConnectionIds |-> NoLog]
    /\ ws = NoEvent

QueryNext ==
    \/ MessageStep
    \/ \E step \in QueryTickSteps : Tick(step)

SpecQuery == QueryInit /\ [][QueryNext]_vars

\* the Connection Registry on its own
RegistryNext ==
    \/ RegistryStep
    \/ \E step \in QueryTickSteps : Tick(step)

SpecRegistry == Init /\ [][RegistryNext]_vars

\* the query handler while connections come and go: the full table, one
\* request without a body and one for everything since 1970-01-01
FanoutBodies == {NoBody, Body("json", "getBikeStats", Iso(1970, 1, 1, 0, 0), Undefined)}

FanoutInit == QueryInit /\ table = UNION QueryTables

FanoutNext ==
    \/ RegistryStep
    \/ \E c \in ConnectionIds, body \in FanoutBodies, failAt \in 0..MaxFailAt :
          /\ ws = NoEvent
          /\ failAt <= NumQueries(body, now)
          /\ HandleMessage(c, body, failAt)
    \/ \E step \in QueryTickSteps : Tick(step)

SpecFanout == FanoutInit /\ [][FanoutNext]_vars

\* runs of the mirroring Collector for the first provider that overlap, a
\* second between the steps the clock is read at
OverlapNext ==
    \/ OverlapStep
    \/ Tick(FetchMs)

SpecOverlap == Init /\ [][OverlapNext]_vars

\* the Collector and the start of the Sweeper in an environment that lacks
\* the provider list, the table name or both
ConfigInit ==
    /\ now = InitialNow
    /\ ticks = 0
    /\ table = {}
    /\ colPc = "idle"
    /\ colTask = [p \in ProviderNames |-> PendingTask]
    /\ colSummary = NoSummary
    /\ colStatusCode = 0
    /\ bucket = {}
    /\ env \in Environments \ {Configured}
    /\ runs = [r \in RunIds |-> IdleRun]
    /\ sw = SweeperIdle
    /\ swStarted = {}
    /\ swCompleted = {}
    /\ swDeleted = {}
    /\ swSent = <<>>
    /\ swResp = <<>>
    /\ swSleeps = <<>>
    /\ swThrown = <<>>
    /\ swHist = NoHistory
    /\ connections = {}
    /\ registryLog = [c \in ConnectionIds |-> NoLog]
    /\ ws = NoEvent

ConfigNext ==
    \/ CollectorStep
    \/ SweeperInvoke
    \/ Elapse

SpecConfig == ConfigInit /\ [][ConfigNext]_vars

\* the mirroring Collector, an hour between its runs
BlobCollectorNext ==
    \/ BlobCollectorStep
    \/ \E step \in QueryTickSteps : Tick(step)

SpecBlobCollector == Init /\ [][BlobCollectorNext]_vars

\* the Feed Normalizer over the documents a provider may serve
StationsKnown == {Station("s1", 10), Station("s2", 8)}

ActiveFlags == {<<TRUE, TRUE, TRUE>>, <<FALSE, TRUE, TRUE>>, <<TRUE, FALSE, TRUE>>,
                <<TRUE, TRUE, FALSE>>}

StatusesKnown ==
    {StationStatus("s1", 3, 5, f[1], f[2], f[3]) : f \in ActiveFlags}
    \cup {StationStatus("s2", 4, 2, f[1], f[2], f[3]) : f \in ActiveFlags}

SeqsUpTo(S, n) == UNION {[1..k -> S] : k \in 0..n}

\* X.feeds at a location: undefined, [], both sub-feeds, station_status
\* missing, or both names inexact
FeedListsAt(location) ==
    {NoFeedList,
     FeedList(TRUE, <<>>),
     FeedList(TRUE, <<Feed(location, "station_information"), Feed(location, "station_status")>>),
     FeedList(TRUE, <<Feed(location, "system_information"), Feed(location, "station_information")>>),
     FeedList(TRUE, <<Feed(location, "station_informations"), Feed(location, "Station_Status")>>)}

DiscoveryDocuments ==
    {NetworkError, NoData}
    \cup {GbfsResponse("document", en, feeds, de) :
            en \in FeedListsAt("en"), feeds \in FeedListsAt("flat"), de \in FeedListsAt("de")}

NormalizerFetches ==
    {Fetched(gbfs, GoodFetched.stationInfo, GoodFetched.stationStatus) :
        gbfs \in DiscoveryDocuments}
    \cup {Fetched(GoodGbfs, StationsResponse(TRUE, stations), StationsResponse(TRUE, statuses)) :
            stations \in SeqsUpTo(StationsKnown, MaxStations),
            statuses \in SeqsUpTo(StatusesKnown, MaxStations)}
    \cup {Fetched(GoodGbfs, StationsResponse(FALSE, <<>>), GoodFetched.stationStatus),
          Fetched(GoodGbfs, GoodFetched.stationInfo, StationsResponse(FALSE, <<>>))}

\* the invocations on the empty table, the first provider serving any of the
\* documents and the second being unreachable: what the Normalizer does for a
\* provider depends on that provider's documents alone
NormalizerNext ==
    \/ table = {} /\ CollectorInvoke
    \/ \E fetched \in NormalizerFetches : CollectProviderData(PROVIDERS[1], fetched)
    \/ CollectProviderData(PROVIDERS[2], NothingFetched)
    \/ \E p \in ProviderNames, ok \in BOOLEAN : StoreStats(p, ok)
    \/ CollectorReturn

SpecNormalizer == Init /\ [][NormalizerNext]_vars

\* ---------------------------------------------------------------- C1
\* providers whose normalization or storage failed in the invocation
FailedProviders == {p \in ProviderNames : colTask[p].status = "error"}

\* C1: a Collector invocation over N providers of which K fail returns the
\* summary total = N, success = N - K, failed = K.
C1_SummaryCountsFailures ==
    colPc = "returned" =>
        colSummary = [total   |-> Len(PROVIDERS),
                      success |-> Len(PROVIDERS) - Cardinality(FailedProviders),
                      failed  |-> Cardinality(FailedProviders)]

\* ---------------------------------------------------------------- C2
\* now - retention window, in epoch seconds, the unit of the stored timestamps
CutoffSeconds == sw.cutoffTime \div 1000

\* C2: the Retention Sweeper never deletes a record whose timestamp is >= the
\* cutoff (now - retention window, in the unit of the timestamps).
C2_NeverDeletesRecentRecord ==
    \A k \in swDeleted : k[2] < CutoffSeconds

\* ---------------------------------------------------------------- C3
\* C3: when the sweep of one provider fails, the sweep of every other
\* configured provider is still carried out in the same invocation.
C3_OtherProvidersStillSwept ==
    sw.pc \in {"done", "failed"} => swStarted = ProviderNames

\* ---------------------------------------------------------------- C4
GetBikeStatsRequest ==
    /\ ws.routeKey = "$default"
    /\ ws.body.kind = "json"
    /\ ws.body.action = "getBikeStats"

Answered == Len(ws.posts) = 1 /\ ws.posts[1].type = "bikeStats"

\* the UTC calendar dates touched by [startTimestamp, endTimestamp]
TouchedDates(startTimestamp, endTimestamp) ==
    {CivilFromDays(d) : d \in (startTimestamp \div DayMs)..(endTimestamp \div DayMs)}

\* C4: for a window with start <= end the date partitions queried are exactly
\* the UTC calendar dates touched by the window, one query per date.
C4_QueriesEveryDateTouched ==
    (/\ GetBikeStatsRequest
     /\ Answered
     /\ Lte(ws.startTimestamp, ws.endTimestamp))
    => /\ {ws.queries[i].date : i \in 1..Len(ws.queries)}
            = TouchedDates(ws.startTimestamp, ws.endTimestamp)
       /\ Len(ws.queries) = Cardinality(TouchedDates(ws.startTimestamp, ws.endTimestamp))

\* ---------------------------------------------------------------- C5
InWindow(r) ==
    /\ Lte(ws.startTimestamp, ws.endTimestamp)
    /\ ws.startTimestamp <= r.timestamp * 1000
    /\ r.timestamp * 1000 <= ws.endTimestamp

\* C5: a success response contains every stored record whose timestamp lies
\* within the requested window.
C5_ResponseHoldsEveryRecordInWindow ==
    (GetBikeStatsRequest /\ Answered)
    => \A r \in table : InWindow(r) =>
          \E i \in 1..Len(ws.posts[1].data) : ws.posts[1].data[i] = r

\* ---------------------------------------------------------------- C6
\* C6: whatever the body of an inbound message, the query handler sends
\* exactly one message to the connection and does not throw.
C6_ExactlyOnePushNoThrow ==
    ws.routeKey = "$default" => Len(ws.posts) = 1 /\ ~ws.threw

\* ---------------------------------------------------------------- C7
InvalidDate(field) == Truthy(field) /\ ParseDate(field) = NaN

\* C7: a request whose startDate or endDate is not a valid date is answered
\* with an error message, never with a bikeStats message.
C7_InvalidDateAnsweredWithError ==
    (/\ GetBikeStatsRequest
     /\ InvalidDate(ws.body.startDate) \/ InvalidDate(ws.body.endDate))
    => Len(ws.posts) = 1 /\ ws.posts[1].type = "error"

\* ---------------------------------------------------------------- C8
\* C8 as stated: if either bound is omitted the window is [now - 1h, now],
\* whatever the bound that was supplied.
C8_EitherOmittedGivesTrailingHour ==
    (/\ GetBikeStatsRequest
     /\ ~Truthy(ws.body.startDate) \/ ~Truthy(ws.body.endDate))
    => /\ ws.startTimestamp = ws.now - HourMs
       /\ ws.endTimestamp = ws.now

\* the instant an ISO-8601 field names, in ms: whole days since the epoch
\* plus the time of day
InstantOf(field) ==
    DaysFromCivil(field.y, field.m, field.d) * DayMs + field.h * HourMs + field.mi * MinuteMs

\* C8 amended: each bound defaults on its own: an omitted startDate gives
\* now - 1h, an omitted endDate gives now, and a supplied valid bound is
\* used as given.
C8_EachOmittedBoundDefaults ==
    GetBikeStatsRequest
    => /\ ~Truthy(ws.body.startDate) => ws.startTimestamp = ws.now - HourMs
       /\ ~Truthy(ws.body.endDate) => ws.endTimestamp = ws.now
       /\ (Truthy(ws.body.startDate) /\ ~InvalidDate(ws.body.startDate))
             => ws.startTimestamp = InstantOf(ws.body.startDate)
       /\ (Truthy(ws.body.endDate) /\ ~InvalidDate(ws.body.endDate))
             => ws.endTimestamp = InstantOf(ws.body.endDate)

\* a request with a startDate far from now - 1h and no endDate was handled
C8_Witness ==
    /\ GetBikeStatsRequest
    /\ Truthy(ws.body.startDate) /\ ~InvalidDate(ws.body.startDate)
    /\ ~Truthy(ws.body.endDate)
    /\ ws.startTimestamp < ws.now - HourMs
    /\ ws.endTimestamp = ws.now
    /\ Answered

\* ---------------------------------------------------------------- C9
\* C9: once the sweep of a provider has completed without error, no record
\* of that provider with timestamp < cutoff remains in the table.
C9_CompletedSweepLeavesNoOldRecord ==
    \A p \in swCompleted :
        \A r \in table : r.provider_id = p => r.timestamp >= CutoffSeconds

\* the sweep of the first provider completed after deleting more old records
\* than one page holds: two pages, the first of them in two batches
C9_Witness ==
    /\ PROVIDERS[1] \in swCompleted
    /\ Cardinality({k \in swDeleted : k[1] = PROVIDERS[1] /\ k[2] < CutoffSeconds}) > PageLimit
    /\ PageLimit > BATCH_SIZE

\* ---------------------------------------------------------------- C10
\* C10: a delete batch is sent at most 3 times; every request after the first
\* holds exactly the keys reported unprocessed by the previous response; the
\* wait before attempt k+1 is k x base delay; keys still unprocessed after
\* the third attempt fail the batch with a CleanupError.
C10_BoundedRetryOfUnprocessedKeys ==
    /\ Len(swSent) <= 3
    /\ \A i \in 2..Len(swSent) :
          /\ swSent[i] = swResp[i - 1]
          /\ Len(swSleeps) >= i - 1
          /\ swSleeps[i - 1] = (i - 1) * RETRY_DELAY_MS
    /\ (Len(swResp) = 3 /\ swResp[3] # {})
          => /\ sw.pc = "failed"
             /\ swThrown # <<>>
             /\ swThrown[1] = "Max retries reached for batch delete"

\* a batch went through three attempts and still had unprocessed keys
C10_Witness ==
    /\ Len(swSent) = 3
    /\ Len(swResp) = 3
    /\ swResp[3] # {}
    /\ swResp[1] # swSent[1]
    /\ swSleeps = <<RETRY_DELAY_MS, 2 * RETRY_DELAY_MS>>
    /\ sw.pc = "failed"

NormalizedAndStored(p) ==
    /\ colTask[p].st = "settled"
    /\ NormalizeFeeds(p, colTask[p].timestamp, colTask[p].fetched).ok
    /\ colTask[p].stored = "ok"

\* C12: in a Collector invocation every provider whose normalization and
\* store succeed is reported with status success and has its record in the
\* table, whatever the other providers do; the response is a 200 even when
\* providers failed.
C12_SuccessfulProviderReportedAndStored ==
    /\ \A p \in ProviderNames :
          NormalizedAndStored(p)
          => /\ colTask[p].status = "success"
             /\ \E r \in table : Key(r) = <<p, colTask[p].timestamp>>
    /\ colPc = "returned" => colStatusCode = 200

\* an invocation returned in which one provider succeeded and another failed
C12_Witness ==
    /\ colPc = "returned"
    /\ colStatusCode = 200
    /\ \E p, q \in ProviderNames :
          /\ NormalizedAndStored(p)
          /\ colTask[p].status = "success"
          /\ \E r \in table : Key(r) = <<p, colTask[p].timestamp>>
          /\ colTask[q].status = "error"

\* ---------------------------------------------------------------- C13
\* C13: after an invocation of the Collector the store holds at least one new
\* write for every provider reported successful and none for a provider
\* reported failed.
C13_WritesOnlyForSuccessfulProviders ==
    colPc = "returned"
    => \A p \in ProviderNames :
          /\ colTask[p].status = "success"
             => /\ Len(colTask[p].writes) >= 1
                /\ \A i \in 1..Len(colTask[p].writes) :
                      \E o \in bucket : o.Key = colTask[p].writes[i]
          /\ colTask[p].status = "error" => colTask[p].writes = <<>>

\* ---------------------------------------------------------------- C14
\* the first of data.en.feeds, data.feeds, data.de.feeds that is a non-empty
\* list
FirstNonEmptyList(gbfs) ==
    IF gbfs.en.present /\ gbfs.en.feeds # <<>> THEN gbfs.en
    ELSE IF gbfs.feeds.present /\ gbfs.feeds.feeds # <<>> THEN gbfs.feeds
    ELSE IF gbfs.de.present /\ gbfs.de.feeds # <<>> THEN gbfs.de
    ELSE NoFeedList

HasEntryNamed(feeds, name) == \E i \in 1..Len(feeds) : feeds[i].name = name

\* the url of the first entry with that name
UrlOfEntryNamed(feeds, name) ==
    feeds[CHOOSE i \in 1..Len(feeds) :
            /\ feeds[i].name = name
            /\ \A j \in 1..(i - 1) : feeds[j].name # name].url

\* the callback of provider p has received the discovery document
GotDocument(p) ==
    /\ colTask[p].requests # <<>>
    /\ colTask[p].fetched.gbfs.kind = "document"

\* C14: the sub-feed list used is the first of data.en.feeds, data.feeds,
\* data.de.feeds that is a non-empty list: when that list names both
\* sub-feeds, these are the sub-feeds fetched.
C14_FirstNonEmptyListWins ==
    \A p \in ProviderNames :
        LET list == FirstNonEmptyList(colTask[p].fetched.gbfs)
        IN  (/\ GotDocument(p)
             /\ list.present
             /\ HasEntryNamed(list.feeds, "station_information")
             /\ HasEntryNamed(list.feeds, "station_status"))
            => colTask[p].requests =
                  <<"gbfs", UrlOfEntryNamed(list.feeds, "station_information"),
                    UrlOfEntryNamed(list.feeds, "station_status")>>

\* ---------------------------------------------------------------- C15
\* no location of the document holds a list
NoListAnywhere(gbfs) == ~gbfs.en.present /\ ~gbfs.feeds.present /\ ~gbfs.de.present

\* C15: when the discovery document has no sub-feed list at any location, or
\* its list lacks an entry named exactly station_information or
\* station_status, the provider fails before any sub-feed is requested and
\* nothing is written for it; without any list the error is the missing feed
\* list, otherwise the missing required feed.
C15_MissingFeedsFailBeforeFetch ==
    \A p \in ProviderNames :
        LET gbfs == colTask[p].fetched.gbfs
            list == FirstNonEmptyList(gbfs)
        IN  (/\ GotDocument(p)
             /\ \/ ~list.present
                \/ ~HasEntryNamed(list.feeds, "station_information")
                \/ ~HasEntryNamed(list.feeds, "station_status"))
            => /\ colTask[p].status = "error"
               /\ colTask[p].requests = <<"gbfs">>
               /\ colTask[p].stored = "none"
               /\ colTask[p].writes = <<>>
               /\ colTask[p].error = IF NoListAnywhere(gbfs)
                                     THEN "No feeds found for provider"
                                     ELSE "Required feeds not found for provider"

\* a provider whose list holds station_information but no station_status has
\* failed on the missing required feed, after the one request for the document
C15_Witness ==
    \E p \in ProviderNames :
        LET list == FirstNonEmptyList(colTask[p].fetched.gbfs)
        IN  /\ GotDocument(p)
            /\ list.present
            /\ HasEntryNamed(list.feeds, "station_information")
            /\ ~HasEntryNamed(list.feeds, "station_status")
            /\ colTask[p].status = "error"
            /\ colTask[p].error = "Required feeds not found for provider"
            /\ colTask[p].requests = <<"gbfs">>

\* ---------------------------------------------------------------- C16
\* collectProviderData of provider p has resolved with a BikeStats object
Normalized(p) == Len(colTask[p].requests) = 3 /\ colTask[p].error = "" /\ colTask[p].st # "fetching"

InfoOf(p) == colTask[p].fetched.stationInfo.stations

StatusesOf(p) == colTask[p].fetched.stationStatus.stations

\* the positions of the status entries with the station_id
StatusPositions(statuses, station_id) ==
    {j \in 1..Len(statuses) : statuses[j].station_id = station_id}

\* the positions of the stations that have a status entry
MatchedPositions(stations, statuses) ==
    {i \in 1..Len(stations) : StatusPositions(statuses, stations[i].station_id) # {}}

\* the status entry of a matched station: the first with its station_id
StatusAt(stations, statuses, i) ==
    LET hits == StatusPositions(statuses, stations[i].station_id)
    IN  statuses[CHOOSE j \in hits : \A k \in hits : j <= k]

\* the positions of the matched stations that are installed, renting and returning
ActivePositions(stations, statuses) ==
    {i \in MatchedPositions(stations, statuses) :
        /\ StatusAt(stations, statuses, i).is_installed
        /\ StatusAt(stations, statuses, i).is_renting
        /\ StatusAt(stations, statuses, i).is_returning}

RECURSIVE SumAt(_, _)
\* the sum of values[i] over the positions i in I
SumAt(values, I) ==
    IF I = {} THEN 0
    ELSE LET i == CHOOSE i \in I : TRUE
         IN  values[i] + SumAt(values, I \ {i})

\* C16: every station with a matching status entry adds its capacity to
\* total_capacity, active or not, and adds to active_stations,
\* total_bikes_available and total_docks_available iff it is installed,
\* renting and returning.
C16_TotalsOverMatchedAndActiveStations ==
    \A p \in ProviderNames :
        Normalized(p)
        => LET stations == InfoOf(p)
               statuses == StatusesOf(p)
               matched == MatchedPositions(stations, statuses)
               active == ActivePositions(stations, statuses)
               stats == colTask[p].stats
           IN  /\ stats.total_capacity =
                     SumAt([i \in 1..Len(stations) |-> stations[i].capacity], matched)
               /\ stats.active_stations = Cardinality(active)
               /\ stats.total_bikes_available =
                     SumAt([i \in matched |->
                              StatusAt(stations, statuses, i).num_bikes_available], active)
               /\ stats.total_docks_available =
                     SumAt([i \in matched |->
                              StatusAt(stations, statuses, i).num_docks_available], active)

\* two stations, one active with 3 bikes, 5 docks and capacity 10, one
\* inactive with capacity 8
C16_Witness ==
    \E p \in ProviderNames :
        /\ Normalized(p)
        /\ InfoOf(p) = <<Station("s1", 10), Station("s2", 8)>>
        /\ ActivePositions(InfoOf(p), StatusesOf(p)) = {1}
        /\ MatchedPositions(InfoOf(p), StatusesOf(p)) = {1, 2}
        /\ colTask[p].stats.total_stations = 2
        /\ colTask[p].stats.total_capacity = 18
        /\ colTask[p].stats.active_stations = 1
        /\ colTask[p].stats.total_bikes_available = 3
        /\ colTask[p].stats.total_docks_available = 5

\* ---------------------------------------------------------------- C17
\* the station-information list without the stations that have no status entry
MatchedStations(stations, statuses) ==
    SelectSeq(stations, LAMBDA station : StatusPositions(statuses, station.station_id) # {})

\* C17 as stated: a station without status entry is counted in none of the
\* totals: the record is the one the list without that station would give.
C17_UnmatchedStationInNoTotal ==
    \A p \in ProviderNames :
        Normalized(p)
        => colTask[p].stats =
              BikeStats(p, colTask[p].timestamp,
                        MatchedStations(InfoOf(p), StatusesOf(p)), StatusesOf(p))

\* C17 amended: a station without status entry is counted in none of
\* total_capacity, active_stations, total_bikes_available and
\* total_docks_available; it is counted in total_stations, which is the
\* number of station-information entries.
C17_UnmatchedStationInTotalStationsOnly ==
    \A p \in ProviderNames :
        Normalized(p)
        => LET without == BikeStats(p, colTask[p].timestamp,
                                    MatchedStations(InfoOf(p), StatusesOf(p)), StatusesOf(p))
               stats == colTask[p].stats
           IN  /\ stats.total_capacity = without.total_capacity
               /\ stats.active_stations = without.active_stations
               /\ stats.total_bikes_available = without.total_bikes_available
               /\ stats.total_docks_available = without.total_docks_available
               /\ stats.total_stations =
                     without.total_stations
                     + Len(InfoOf(p)) - Len(MatchedStations(InfoOf(p), StatusesOf(p)))

\* a record was emitted for two stations of which one has no status entry
C17_Witness ==
    \E p \in ProviderNames :
        /\ Normalized(p)
        /\ Len(InfoOf(p)) = 2
        /\ Len(MatchedStations(InfoOf(p), StatusesOf(p))) = 1
        /\ colTask[p].stats.total_stations = 2
        /\ colTask[p].stats.total_capacity = MatchedStations(InfoOf(p), StatusesOf(p))[1].capacity

\* ---------------------------------------------------------------- C18
\* C18: every record the Feed Normalizer emits has active_stations <=
\* total_stations, total_stations being the number of station-information
\* entries, duplicate station_ids included.
C18_ActiveAtMostTotalStations ==
    \A p \in ProviderNames :
        Normalized(p)
        => /\ colTask[p].stats.active_stations <= colTask[p].stats.total_stations
           /\ colTask[p].stats.total_stations = Len(InfoOf(p))

\* a record was emitted for a list that names one active station twice
C18_Witness ==
    \E p \in ProviderNames :
        /\ Normalized(p)
        /\ Len(InfoOf(p)) = 2
        /\ InfoOf(p)[1].station_id = InfoOf(p)[2].station_id
        /\ colTask[p].stats.active_stations = 2
        /\ colTask[p].stats.total_stations = 2

\* ---------------------------------------------------------------- C19
\* C19: every stored record has expiry_time = its timestamp (the collection
\* time) + the retention window.
C19_ExpiryIsCollectionTimePlusRetention ==
    \A r \in table :
        r.expiry_time = r.timestamp + CollectorRetentionDays * 24 * 60 * 60

\* ---------------------------------------------------------------- C20
\* C20: the date of every stored record is the UTC calendar date of its own
\* timestamp, and it is the one date partition the query enumerator derives
\* for that instant.
C20_DateIsUtcDateOfTimestamp ==
    \A r \in table :
        /\ r.date[2] \in 1..12
        /\ r.date[3] \in 1..31
        /\ DaysFromCivil(r.date[1], r.date[2], r.date[3]) * 24 * 60 * 60 <= r.timestamp
        /\ r.timestamp < (DaysFromCivil(r.date[1], r.date[2], r.date[3]) + 1) * 24 * 60 * 60
        /\ getDatesBetween(r.timestamp * 1000, r.timestamp * 1000) = <<r.date>>

\* the Collector has stored a record half an hour before midnight UTC and
\* another on a later date
C20_Witness ==
    \E r, q \in table :
        /\ r.timestamp % (24 * 60 * 60) >= 23 * 60 * 60
        /\ q.date # r.date
        /\ q.timestamp > r.timestamp

\* ---------------------------------------------------------------- C21
\* the data array of the one message pushed
ResponseData == ws.posts[1].data

\* C21: the data array of every bikeStats success response is sorted
\* non-decreasing by timestamp, however many date partitions were queried and
\* however the providers' records interleave.
C21_ResponseSortedByTimestamp ==
    (GetBikeStatsRequest /\ Answered)
    => \A i, j \in 1..Len(ResponseData) :
          i < j => ResponseData[i].timestamp <= ResponseData[j].timestamp

\* a response merged from two date partitions holds records of both
\* providers at two different times
C21_Witness ==
    /\ GetBikeStatsRequest
    /\ Answered
    /\ Len(ws.queries) >= 2
    /\ Len(ResponseData) >= 3
    /\ {ResponseData[i].provider_id : i \in 1..Len(ResponseData)} = ProviderNames
    /\ ResponseData[1].timestamp < ResponseData[Len(ResponseData)].timestamp

\* ---------------------------------------------------------------- C22
\* both bounds of the request are omitted or name a date
ValidRequest ==
    /\ GetBikeStatsRequest
    /\ ~InvalidDate(ws.body.startDate)
    /\ ~InvalidDate(ws.body.endDate)

\* C22: a valid getBikeStats request over a window that contains no stored
\* record, every query of which the store answers, is answered with a
\* bikeStats message whose data is the empty array, not with an error.
C22_EmptyWindowAnsweredWithEmptyData ==
    (/\ ValidRequest
     /\ ws.failAt = 0
     /\ \A r \in table : ~InWindow(r))
    => Answered /\ ResponseData = <<>>

\* the table holds records, a partition was queried, none lies in the window
C22_Witness ==
    /\ ValidRequest
    /\ Truthy(ws.body.startDate) /\ Truthy(ws.body.endDate)
    /\ table # {}
    /\ Len(ws.queries) >= 1
    /\ \E r \in table : r.date = ws.queries[1].date
    /\ \A r \in table : ~InWindow(r)
    /\ Answered
    /\ ResponseData = <<>>

\* ---------------------------------------------------------------- C27
\* C27: every record of a bikeStats response is a stored record with
\* floor(start/1000) <= timestamp <= floor(end/1000) and a date among the
\* partitions enumerated, and no stored record appears twice.
C27_ResponseWithinWindowNoDuplicates ==
    (GetBikeStatsRequest /\ Answered)
    => /\ \A i \in 1..Len(ResponseData) :
             /\ ResponseData[i] \in table
             /\ ws.startTimestamp \div 1000 <= ResponseData[i].timestamp
             /\ ResponseData[i].timestamp <= ws.endTimestamp \div 1000
             /\ \E k \in 1..Len(ws.queries) : ws.queries[k].date = ResponseData[i].date
       /\ \A i, j \in 1..Len(ResponseData) :
             ResponseData[i] = ResponseData[j] => i = j

\* a response holds the records in the window while a partition queried
\* holds a record outside it
C27_Witness ==
    /\ GetBikeStatsRequest
    /\ Answered
    /\ Len(ResponseData) >= 1
    /\ \E r \in table :
          /\ \E k \in 1..Len(ws.queries) : ws.queries[k].date = r.date
          /\ ~InWindow(r)
          /\ \A i \in 1..Len(ResponseData) : ResponseData[i] # r

\* ---------------------------------------------------------------- C28
\* C28: if a date-partition query fails while a request is answered, no
\* bikeStats message is sent (what the partitions before it returned is
\* dropped) and a single error message is sent instead.
C28_FailedQueryAnsweredWithErrorOnly ==
    (GetBikeStatsRequest /\ ws.failAt > 0)
    => /\ Len(ws.posts) = 1
       /\ ws.posts[1].type = "error"
       /\ ws.posts[1].data = <<>>

\* the second query failed after the first had returned records
C28_Witness ==
    /\ GetBikeStatsRequest
    /\ ws.failAt = 2
    /\ Len(ws.queries) = 2
    /\ QueryDateIndex(table, ws.queries[1]) # <<>>
    /\ Len(ws.posts) = 1
    /\ ws.posts[1].type = "error"

\* ---------------------------------------------------------------- C23
\* C23: every message pushed while a query is handled is addressed to the
\* connection id of the inbound request, whatever other connections the
\* Connection Registry holds.
C23_PostsAddressedToRequesterOnly ==
    ws.routeKey = "$default"
    => \A i \in 1..Len(ws.posts) : ws.posts[i].ConnectionId = ws.connectionId

\* a request was answered while another connection was registered
C23_Witness ==
    /\ GetBikeStatsRequest
    /\ Answered
    /\ ws.posts[1].ConnectionId = ws.connectionId
    /\ \E r \in connections : r.connection_id # ws.connectionId

\* ---------------------------------------------------------------- C24
\* the records of the registry with connection id c
RecordsOf(regs, c) == {r \in regs : r.connection_id = c}

\* $connect or $disconnect for c is handled in this step and the handler
\* returns 200
Handled(routeKey, c) ==
    /\ ws = NoEvent
    /\ ws'.routeKey = routeKey
    /\ ws'.connectionId = c
    /\ ws'.statusCode = 200

\* at most one record per connection id; a record for c iff the last event
\* handled for c was a connect
RegistryInv ==
    \A c \in ConnectionIds :
       /\ Cardinality(RecordsOf(connections, c)) <= 1
       /\ Registered(connections, c) <=> registryLog[c].last = "connect"

\* a connect leaves exactly the record written now, also when one was there;
\* a disconnect of an absent id changes nothing and returns 200 unless the
\* store itself fails; records of other ids are never touched
RegistryStepInv ==
    \A c \in ConnectionIds :
       /\ Handled("$connect", c)
             => RecordsOf(connections', c) = {[connection_id |-> c, timestamp |-> now]}
       /\ (ws = NoEvent /\ ws'.routeKey = "$disconnect" /\ ws'.connectionId = c
             /\ ~Registered(connections, c))
             => /\ connections' = connections
                /\ ws'.failAt = 0 => (~ws'.threw /\ ws'.statusCode = 200)
       /\ ws'.connectionId # c => RecordsOf(connections', c) = RecordsOf(connections, c)

\* C24: after any sequence of connect and disconnect events the registry
\* holds at most one record per connection id, and one for c iff the last
\* event handled for c was a connect; a duplicate connect overwrites, a
\* disconnect of an absent id is a no-op that raises no error.
C24_RegistryFollowsLastHandledEvent == []RegistryInv /\ [][RegistryStepInv]_vars

\* c1 connected twice, the second time later than the first; c2 was
\* disconnected while absent
C24_Witness ==
    /\ registryLog["c1"] = [last |-> "connect", redundant |-> TRUE]
    /\ \E r \in connections : r.connection_id = "c1" /\ r.timestamp > InitialNow
    /\ registryLog["c2"] = [last |-> "disconnect", redundant |-> TRUE]
    /\ ~Registered(connections, "c2")

\* ---------------------------------------------------------------- C25
\* the runs whose storeData put all three objects
StoredRuns == {r \in RunIds : runs[r].st = "done"}

\* the greatest number of a non-empty set
Greatest(S) == CHOOSE x \in S : \A y \in S : y <= x

\* C25: once the runs of the Collector for a provider have ended, however
\* they interleaved, the slot the point-read endpoint reads for the provider
\* holds the record with the greatest timestamp among those stored.
C25_LatestSlotHoldsGreatestTimestamp ==
    (/\ \A r \in RunIds : runs[r].st # "storing"
     /\ StoredRuns # {})
    => /\ PROVIDERS[1] \in DOMAIN ReadLatest(bucket)
       /\ ReadLatest(bucket)[PROVIDERS[1]]
             = Greatest({runs[r].stats.timestamp : r \in StoredRuns})

\* ---------------------------------------------------------------- C26
\* the provider list or the table name is not in the environment
ConfigurationMissing == ~env.PROVIDERS \/ ~env.DYNAMODB_TABLE

\* C26: when required configuration is missing, an invocation of the
\* Collector or of the Sweeper fails as a whole at once: it requests no feed,
\* performs no store operation, retries nothing, and ends in failure.
C26_MissingConfigFailsBeforeAnyWork ==
    ConfigurationMissing
    => /\ colPc # "running"
       /\ colPc = "returned" => colStatusCode = 500
       /\ \A p \in ProviderNames :
             colTask[p].requests = <<>> /\ colTask[p].stored = "none"
       /\ sw.pc \in {"idle", "failed"}
       /\ swStarted = {} /\ swSent = <<>> /\ swSleeps = <<>>

\* ---------------------------------------------------------------- C29
\* the invocation has returned its result or thrown
SweeperEnded == sw.pc \in {"done", "failed"}

\* C29: every invocation of the Retention Sweeper ends, with a result or a
\* throw, even if the store reports unprocessed keys on every BatchWrite:
\* the retry loop of a batch ends after at most 3 sends.
C29_SweeperTerminates ==
    /\ SweeperRunning ~> SweeperEnded
    /\ [](Len(swSent) <= MAX_RETRIES)

\* an invocation ended after the store had processed nothing in any of the
\* three attempts of a batch
C29_Witness ==
    /\ sw.pc = "failed"
    /\ Len(swSent) = MAX_RETRIES
    /\ Len(swResp) = MAX_RETRIES
    /\ \A i \in 1..MAX_RETRIES : swResp[i] = swSent[i] /\ swSent[i] # {}
    /\ swThrown # <<>>
    /\ swThrown[1] = "Max retries reached for batch delete"

\* ---------------------------------------------------------------- C30
RECURSIVE Flatten(_)
\* the batches one after the other
Flatten(batches) ==
    IF batches = <<>> THEN <<>> ELSE Head(batches) \o Flatten(Tail(batches))

\* the batches at hand hold between 1 and BATCH_SIZE records each, all of
\* the provider being swept and all still to be requested or just requested;
\* the keys to send are keys of the batch in front
BatchesInv ==
    sw.pc \in {"send", "sleep"}
    => /\ sw.batches # <<>>
       /\ \A b \in 1..Len(sw.batches) :
             /\ Len(sw.batches[b]) \in 1..BATCH_SIZE
             /\ \A i \in 1..Len(sw.batches[b]) :
                   sw.batches[b][i].provider_id = PROVIDERS[sw.idx]
       /\ sw.unprocessedItems \subseteq DeleteRequests(sw.batches[1])
       /\ PROVIDERS[sw.idx] \in ProviderNames

\* a step of the invocation: the batches of a page partition what the query
\* of this invocation returned and are then taken one by one; a request
\* holds at most BATCH_SIZE keys of the batch in front; only records whose
\* key was requested leave the table and no record is added or changed
FrameStepInv ==
    SweeperRunning
    => /\ (sw.pc = "query" /\ sw'.pc = "send")
             => Flatten(sw'.batches)
                   = QueryPage(table, PROVIDERS[sw.idx], sw.cutoffTime,
                               sw.lastEvaluatedKey).Items
       /\ (sw.pc \in {"send", "sleep"} /\ sw'.pc \in {"send", "sleep"})
             => sw'.batches \in {sw.batches, Tail(sw.batches)}
       /\ (sw.pc = "send" /\ swSent' # <<>>)
             => /\ swSent'[Len(swSent')] \subseteq DeleteRequests(sw.batches[1])
                /\ Cardinality(swSent'[Len(swSent')]) <= BATCH_SIZE
       /\ sw.pc # "send" => swSent' = swSent
       /\ table' \subseteq table
       /\ \A r \in table \ table' :
             /\ sw.pc = "send"
             /\ Key(r) \in sw.unprocessedItems
             /\ r.provider_id \in ProviderNames

\* C30: an invocation of the Retention Sweeper requests deletes only for
\* keys its own query returned for a provider of the provider list: records
\* of other providers stay as they are, no record is created or modified,
\* and each BatchWrite request carries at most 25 keys, the batches of a page
\* partitioning the page.
C30_SweeperDeletesOnlyQueriedKeys == []BatchesInv /\ [][FrameStepInv]_vars

\* a sweep that deleted more than one batch of records has returned and the
\* old record of the unlisted provider is still in the table
C30_Witness ==
    /\ sw.pc = "done"
    /\ Cardinality(swDeleted) > BATCH_SIZE
    /\ UnlistedItem \in table
    /\ UnlistedItem.timestamp < CutoffSeconds

====
